---- MODULE Spec2Model ----
(***************************************************************************)
(* Model of type_safe's optional_ref: reference_optional_storage<T>, the   *)
(* helpers ref / cref / copy / move, and the callers' objects they alias.  *)
(*                                                                         *)
(* Memory is a map from addresses to objects.  Addresses 1..NumObjs are    *)
(* objects owned by the caller; ResAddr is the storage inside the owning   *)
(* optional<T> that receives the result of copy() / move().  An optional   *)
(* reference is its pointer_ member: an address, or nullptr.               *)
(***************************************************************************)
EXTENDS Integers, FiniteSets, Sequences, TLC

\* number of caller objects an optional reference can be bound to
NumObjs == 2
\* objects hold an id in 0..MaxVal
MaxVal == 1

nullptr == 0
Objs == 1 .. NumObjs
ResAddr == NumObjs + 1
Addr == Objs \cup {ResAddr}
Values == 0 .. MaxVal

\* optional_ref<T> variables (T non-const) and optional_ref<const T> variables
MutRefs == {"a"}
ConstRefs == {"c"}
Refs == MutRefs \cup ConstRefs

VARIABLES
    pointer_,   \* pointer_[r]: the T* member of optional reference r
    heap,       \* heap[x]: the object stored at address x
    res,        \* the owning optional<T> that holds copy()/move() results
    op,         \* the call that produced the current state
    ret,        \* the reference (address) returned by the last call
    retb,       \* the bool returned by the last call
    last        \* last[r]: the most recent call that assigned r's pointer_

vars == <<pointer_, heap, res, op, ret, retb, last>>

\* an object of the referenced type: its id, how it was constructed and
\* whether it has been the source of a move construction since its last write
Obj(id, ctor, moved) == [id |-> id, ctor |-> ctor, moved_from |-> moved]
NoObj == Obj(0, "none", FALSE)

\* the call returns no reference / no bool
NoRef == ret' = nullptr
NoBool == retb' = FALSE

\* the binding of r was assigned by call `name` with argument `arg`
Bind(r, name, arg) == last' = [last EXCEPT ![r] = [name |-> name, arg |-> arg]]

\* the record of a call: its name, the optional reference r it is made on,
\* its address argument, its value argument, r's pointer_ before the call,
\* and the source optional reference of create_value(const basic_optional&)
Call(name, r, arg, val, prev) ==
    [name |-> name, r |-> r, arg |-> arg, val |-> val, prev |-> prev, src |-> "-"]

(***************************************************************************)
(* reference_optional_storage<T>: each member function as a function of    *)
(* the member pointer_ (p) and its arguments, giving the new pointer_ or   *)
(* the value returned.                                                     *)
(***************************************************************************)
reference_optional_storage == nullptr

\* a value-holding optional's create_value: binds only when empty
create_value_if_empty(p, obj) == IF p = nullptr THEN obj ELSE p

create_value(p, obj) == obj

has_value(p) == p # nullptr

get_value(p) == p

\* forgets to unbind when the source is empty
create_value_ref_keep(p, const_ref) ==
    IF const_ref # nullptr THEN const_ref ELSE p

create_value_ref(p, const_ref) ==
    IF has_value(const_ref) THEN get_value(const_ref) ELSE nullptr

\* leaves the binding in place
destroy_value_noop(p) == p

destroy_value(p) == nullptr

\* ignores the null argument
create_value_nullptr_noop(p) == p

create_value_nullptr(p) == destroy_value(p)

\* the branches swapped
get_value_or_swapped(p, other) == IF has_value(p) THEN other ELSE get_value(p)

get_value_or(p, other) == IF has_value(p) THEN get_value(p) ELSE other

(***************************************************************************)
(* The owning optional<T> and make_optional of the optional container.     *)
(***************************************************************************)
nullopt == nullptr

Result(has, h) == [opt |-> [has |-> has, addr |-> ResAddr], mem |-> h]

nullopt_value(h) == Result(FALSE, [h EXCEPT ![ResAddr] = NoObj])

make_optional_copy(h, src) ==
    Result(TRUE, [h EXCEPT ![ResAddr] = Obj(h[src].id, "copy_ctor", FALSE)])

make_optional_move(h, src) ==
    Result(TRUE, [h EXCEPT ![ResAddr] = Obj(h[src].id, "move_ctor", FALSE),
                           ![src] = [@ EXCEPT !.moved_from = TRUE]])

(***************************************************************************)
(* The conversion helpers.                                                 *)
(***************************************************************************)
\* the null test inverted
ref_inverted(ptr) ==
    IF ptr = nullptr THEN create_value(reference_optional_storage, ptr) ELSE nullopt

ref(ptr) ==
    IF ptr # nullptr THEN create_value(reference_optional_storage, ptr) ELSE nullopt

cref(ptr) ==
    IF ptr # nullptr THEN create_value(reference_optional_storage, ptr) ELSE nullopt

\* hands out the referenced object itself instead of a copy of it
copy_alias(p, h) ==
    IF has_value(p)
      THEN [opt |-> [has |-> TRUE, addr |-> get_value(p)],
            mem |-> [h EXCEPT ![ResAddr] = NoObj]]
      ELSE nullopt_value(h)

copy(p, h) ==
    IF has_value(p) THEN make_optional_copy(h, get_value(p)) ELSE nullopt_value(h)

\* std::move forgotten: copy-constructs the result
move_copies(p, h) == copy(p, h)

move(p, h) ==
    IF has_value(p) THEN make_optional_move(h, get_value(p)) ELSE nullopt_value(h)

(***************************************************************************)
(* Initial state: default-constructed (empty) optional references, caller  *)
(* objects with arbitrary ids, an empty owning optional.                   *)
(***************************************************************************)
Init ==
    /\ pointer_ = [r \in Refs |-> reference_optional_storage]
    /\ heap \in {h \in [Addr -> {Obj(v, "ctor", FALSE) : v \in Values} \cup {NoObj}] :
                    /\ h[ResAddr] = NoObj
                    /\ \A o \in Objs : h[o] # NoObj}
    /\ res = [has |-> FALSE, addr |-> ResAddr]
    /\ op = Call("init", "-", nullptr, 0, nullptr)
    /\ ret = nullptr
    /\ retb = FALSE
    /\ last = [r \in Refs |-> [name |-> "reference_optional_storage", arg |-> nullptr]]

(***************************************************************************)
(* Calls on an optional reference r.                                       *)
(***************************************************************************)
\* a value-holding optional's assignment: when bound, assigns through the
\* reference instead of rebinding
CreateValue_through(r, obj) ==
    /\ IF has_value(pointer_[r])
          THEN /\ heap' = [heap EXCEPT ![pointer_[r]] = Obj(heap[obj].id, @.ctor, FALSE)]
               /\ UNCHANGED pointer_
          ELSE /\ pointer_' = [pointer_ EXCEPT ![r] = create_value(@, obj)]
               /\ UNCHANGED heap
    /\ op' = Call("create_value", r, obj, 0, pointer_[r])
    /\ Bind(r, "create_value", obj)
    /\ NoRef /\ NoBool
    /\ UNCHANGED res

CreateValue(r, obj) ==
    /\ pointer_' = [pointer_ EXCEPT ![r] = create_value(@, obj)]
    /\ op' = Call("create_value", r, obj, 0, pointer_[r])
    /\ Bind(r, "create_value", obj)
    /\ NoRef /\ NoBool
    /\ UNCHANGED <<heap, res>>

CreateValueRef(dst, src) ==
    /\ pointer_' = [pointer_ EXCEPT ![dst] = create_value_ref(@, pointer_[src])]
    /\ op' = [Call("create_value_ref", dst, pointer_[src], 0, pointer_[dst])
                 EXCEPT !.src = src]
    /\ Bind(dst, "create_value_ref", pointer_[src])
    /\ NoRef /\ NoBool
    /\ UNCHANGED <<heap, res>>

CreateValueNullptr(r) ==
    /\ pointer_' = [pointer_ EXCEPT ![r] = create_value_nullptr(@)]
    /\ op' = Call("create_value_nullptr", r, nullptr, 0, pointer_[r])
    /\ Bind(r, "create_value_nullptr", nullptr)
    /\ NoRef /\ NoBool
    /\ UNCHANGED <<heap, res>>

DestroyValue(r) ==
    /\ pointer_' = [pointer_ EXCEPT ![r] = destroy_value(@)]
    /\ op' = Call("destroy_value", r, nullptr, 0, pointer_[r])
    /\ Bind(r, "destroy_value", nullptr)
    /\ NoRef /\ NoBool
    /\ UNCHANGED <<heap, res>>

HasValue(r) ==
    /\ retb' = has_value(pointer_[r])
    /\ op' = Call("has_value", r, nullptr, 0, pointer_[r])
    /\ NoRef
    /\ UNCHANGED <<pointer_, heap, res, last>>

\* get_value() on an empty reference dereferences a null pointer: the
\* reference it returns is unspecified
GetValue(r) ==
    /\ IF has_value(pointer_[r])
          THEN ret' = get_value(pointer_[r])
          ELSE ret' \in Objs \cup {nullptr}
    /\ op' = Call("get_value", r, nullptr, 0, pointer_[r])
    /\ NoBool
    /\ UNCHANGED <<pointer_, heap, res, last>>

GetValueOr(r, other) ==
    /\ ret' = get_value_or(pointer_[r], other)
    /\ op' = Call("get_value_or", r, other, 0, pointer_[r])
    /\ NoBool
    /\ UNCHANGED <<pointer_, heap, res, last>>

\* r.value_or(other) = v
ValueOrAssign(r, other, v) ==
    /\ ret' = get_value_or(pointer_[r], other)
    /\ heap' = [heap EXCEPT ![ret'] = Obj(v, @.ctor, FALSE)]
    /\ op' = Call("value_or_assign", r, other, v, pointer_[r])
    /\ NoBool
    /\ UNCHANGED <<pointer_, res, last>>

\* optional_ref<T> r = ref(ptr)
Ref(r, ptr) ==
    /\ pointer_' = [pointer_ EXCEPT ![r] = ref(ptr)]
    /\ op' = Call("ref", r, ptr, 0, pointer_[r])
    /\ Bind(r, "ref", ptr)
    /\ NoRef /\ NoBool
    /\ UNCHANGED <<heap, res>>

\* optional_ref<const T> r = cref(ptr)
CRef(r, ptr) ==
    /\ pointer_' = [pointer_ EXCEPT ![r] = cref(ptr)]
    /\ op' = Call("cref", r, ptr, 0, pointer_[r])
    /\ Bind(r, "cref", ptr)
    /\ NoRef /\ NoBool
    /\ UNCHANGED <<heap, res>>

\* optional<T> res = copy(r)
Copy(r) ==
    /\ res' = copy(pointer_[r], heap).opt
    /\ heap' = copy(pointer_[r], heap).mem
    /\ op' = Call("copy", r, nullptr, 0, pointer_[r])
    /\ NoRef /\ NoBool
    /\ UNCHANGED <<pointer_, last>>

\* optional<T> res = move(r)
Move(r) ==
    /\ res' = move(pointer_[r], heap).opt
    /\ heap' = move(pointer_[r], heap).mem
    /\ op' = Call("move", r, nullptr, 0, pointer_[r])
    /\ NoRef /\ NoBool
    /\ UNCHANGED <<pointer_, last>>

\* the caller assigns to one of its objects: o = v
WriteObj(o, v) ==
    /\ heap' = [heap EXCEPT ![o] = Obj(v, @.ctor, FALSE)]
    /\ op' = Call("write_obj", "-", o, v, nullptr)
    /\ NoRef /\ NoBool
    /\ UNCHANGED <<pointer_, res, last>>

\* the caller assigns through the owning optional: res.value() = v
WriteRes(v) ==
    /\ res.has
    /\ heap' = [heap EXCEPT ![res.addr] = Obj(v, @.ctor, FALSE)]
    /\ op' = Call("write_res", "-", res.addr, v, nullptr)
    /\ NoRef /\ NoBool
    /\ UNCHANGED <<pointer_, res, last>>

Next ==
    \/ \E r \in Refs, obj \in Objs : CreateValue(r, obj)
    \/ \E dst \in Refs, src \in MutRefs : CreateValueRef(dst, src)
    \/ \E r \in Refs : CreateValueNullptr(r)
    \/ \E r \in Refs : DestroyValue(r)
    \/ \E r \in Refs : HasValue(r)
    \/ \E r \in Refs : GetValue(r)
    \/ \E r \in Refs, other \in Objs : GetValueOr(r, other)
    \/ \E r \in MutRefs, other \in Objs, v \in Values : ValueOrAssign(r, other, v)
    \/ \E r \in MutRefs, ptr \in Objs \cup {nullptr} : Ref(r, ptr)
    \/ \E r \in ConstRefs, ptr \in Objs \cup {nullptr} : CRef(r, ptr)
    \/ \E r \in Refs : Copy(r)
    \/ \E r \in MutRefs : Move(r)
    \/ \E o \in Objs, v \in Values : WriteObj(o, v)
    \/ \E v \in Values : WriteRes(v)

Spec == Init /\ [][Next]_vars

(***************************************************************************)
(* The storage policy alone: a freshly constructed policy and the calls    *)
(* the optional container makes on it.                                     *)
(***************************************************************************)
NextPolicy ==
    \/ \E r \in Refs, obj \in Objs : CreateValue(r, obj)
    \/ \E dst \in Refs, src \in MutRefs : CreateValueRef(dst, src)
    \/ \E r \in Refs : CreateValueNullptr(r)
    \/ \E r \in Refs : DestroyValue(r)
    \/ \E r \in Refs : HasValue(r)
    \/ \E r \in Refs : GetValue(r)
    \/ \E r \in Refs, other \in Objs : GetValueOr(r, other)

SpecPolicy == Init /\ [][NextPolicy]_vars

(***************************************************************************)
(* value_or as the optional container's caller uses it: an optional        *)
(* reference bound or cleared, then read or assigned through value_or.     *)
(***************************************************************************)
NextValueOr ==
    \/ \E r \in Refs, obj \in Objs : CreateValue(r, obj)
    \/ \E r \in Refs : CreateValueNullptr(r)
    \/ \E r \in Refs, other \in Objs : GetValueOr(r, other)
    \/ \E r \in MutRefs, other \in Objs, v \in Values : ValueOrAssign(r, other, v)

SpecValueOr == Init /\ [][NextValueOr]_vars

(***************************************************************************)
(* The helpers: optional references made by ref / cref, materialised by    *)
(* copy / move, while the caller writes its objects and the results.       *)
(***************************************************************************)
NextHelpers ==
    \/ \E r \in MutRefs, ptr \in Objs \cup {nullptr} : Ref(r, ptr)
    \/ \E r \in ConstRefs, ptr \in Objs \cup {nullptr} : CRef(r, ptr)
    \/ \E r \in Refs : Copy(r)
    \/ \E r \in MutRefs : Move(r)
    \/ \E o \in Objs, v \in Values : WriteObj(o, v)
    \/ \E v \in Values : WriteRes(v)

SpecHelpers == Init /\ [][NextHelpers]_vars

BindingCalls ==
    {"create_value", "create_value_ref", "create_value_nullptr", "destroy_value"}

QueryCalls == {"has_value", "get_value", "get_value_or"}

(***************************************************************************)
(* Properties                                                              *)
(***************************************************************************)

\* C1: after create_value(y) on an lvalue y, whatever the optional reference
\* held before (nothing, y, or another object), has_value() is true and
\* get_value() is the object y itself (same address).
C1_CreateValueBinds ==
    op.name = "create_value" =>
        /\ has_value(pointer_[op.r])
        /\ get_value(pointer_[op.r]) = op.arg

\* C1 witness: an optional reference bound to another object x was rebound to y
C1_Witness ==
    /\ op.name = "create_value"
    /\ op.prev \notin {nullptr, op.arg}
    /\ pointer_[op.r] = op.arg

\* C2: create_value(y), create_value(nullptr), create_value(other optional
\* reference) and destroy_value() change no object's value: the object bound
\* before, the object bound after and every other object keep their values.
C2_RebindKeepsValues ==
    [][op'.name \in BindingCalls => heap' = heap]_vars

\* C2 witness: a reference was rebound from x to y while x and y held
\* different values, and both still hold them
C2_Witness ==
    /\ op.name = "create_value"
    /\ op.prev \notin {nullptr, op.arg}
    /\ pointer_[op.r] = op.arg
    /\ heap[op.prev].id # heap[op.arg].id

\* C3: ref(ptr) and cref(ptr) are empty if and only if ptr is null; for a
\* non-null ptr the result is bound and its value() is the pointee itself.
C3_RefOfPointer ==
    op.name \in {"ref", "cref"} =>
        /\ ~has_value(pointer_[op.r]) <=> op.arg = nullptr
        /\ op.arg # nullptr => get_value(pointer_[op.r]) = op.arg

\* C3 witness: ref(&o) returned a reference bound to o
C3_Witness ==
    /\ op.name = "ref"
    /\ op.arg \in Objs
    /\ pointer_[op.r] = op.arg

\* C4: create_value(nullptr) does exactly what destroy_value() does: from any
\* state the optional reference ends up empty and nothing else changes, so on
\* an already empty reference either call changes nothing.
C4_NullptrIsDestroy ==
    [][op'.name \in {"create_value_nullptr", "destroy_value"} =>
          /\ ~has_value(pointer_'[op'.r])
          /\ pointer_' = [pointer_ EXCEPT ![op'.r] = destroy_value(@)]
          /\ heap' = heap /\ res' = res
          /\ ~has_value(pointer_[op'.r]) => pointer_' = pointer_]_vars

\* C4 witness: create_value(nullptr) emptied a bound optional reference
C4_Witness ==
    /\ op.name = "create_value_nullptr"
    /\ op.prev # nullptr
    /\ pointer_[op.r] = nullptr

\* C5: get_value_or(fallback) returns the bound object when bound and the
\* fallback when empty; assigning through the returned reference changes
\* that object and no other, and the binding stays as it was.
C5_ValueOr ==
    [][op'.name \in {"get_value_or", "value_or_assign"} =>
          LET p == pointer_[op'.r]
              target == IF p # nullptr THEN p ELSE op'.arg
          IN  /\ ret' = target
              /\ pointer_' = pointer_
              /\ op'.name = "get_value_or" => heap' = heap
              /\ op'.name = "value_or_assign" =>
                    /\ heap'[target].id = op'.val
                    /\ \A x \in Addr \ {target} : heap'[x] = heap[x]]_vars

\* C5 witness: a bound reference's value_or(fallback) was assigned through,
\* which changed the bound object and not the distinct fallback
C5_Witness ==
    /\ op.name = "value_or_assign"
    /\ op.prev \notin {nullptr, op.arg}
    /\ heap[op.prev].id = op.val
    /\ heap[op.arg].id # op.val

\* C6: copy(r) is empty when r is empty; when r is bound to v the result
\* holds a copy-constructed object equal to v and distinct from v, copy
\* changes neither v nor r's binding, and a later write to a caller's object
\* or to the result leaves the other untouched.
C6_Copy ==
    /\ [](op.name = "copy" =>
            /\ res.has <=> op.prev # nullptr
            /\ op.prev # nullptr =>
                  /\ res.addr # op.prev
                  /\ heap[res.addr].id = heap[op.prev].id
                  /\ heap[res.addr].ctor = "copy_ctor")
    /\ [][/\ op'.name = "copy" =>
                /\ pointer_' = pointer_
                /\ \A o \in Objs : heap'[o] = heap[o]
          /\ op'.name = "write_obj" /\ res.has =>
                heap'[res.addr] = heap[res.addr]
          /\ op'.name = "write_res" =>
                \A o \in Objs : heap'[o] = heap[o]]_vars

\* C6 witness: after copy(r) the object r is bound to was written, and the
\* copy kept the old value
C6_Witness ==
    /\ op.name = "write_obj"
    /\ \E r \in Refs : pointer_[r] = op.arg
    /\ res.has
    /\ heap[res.addr].ctor = "copy_ctor"
    /\ heap[res.addr].id # heap[op.arg].id

\* C7: move(r) is empty when r is empty; when r is bound to v the result
\* holds the value v had, move-constructed from v (v is left moved-from),
\* and r stays bound to v.
C7_Move ==
    [][op'.name = "move" =>
          LET v == pointer_[op'.r] IN
          /\ pointer_' = pointer_
          /\ res'.has <=> v # nullptr
          /\ v = nullptr => \A o \in Objs : heap'[o] = heap[o]
          /\ v # nullptr =>
                /\ res'.addr # v
                /\ heap'[res'.addr].id = heap[v].id
                /\ heap'[res'.addr].ctor = "move_ctor"
                /\ heap'[v].moved_from
                /\ \A o \in Objs \ {v} : heap'[o] = heap[o]]_vars

\* C7 witness: move(r) on a bound r produced a move-constructed result and
\* left the referenced object moved-from, r still bound to it
C7_Witness ==
    /\ op.name = "move"
    /\ op.prev # nullptr
    /\ pointer_[op.r] = op.prev
    /\ heap[op.prev].moved_from
    /\ res.has
    /\ heap[res.addr].ctor = "move_ctor"

\* C8: create_value from a mutable-target optional reference src on a
\* const-target optional reference dst leaves dst bound to what src is bound
\* to, or empty if src is empty, whatever dst held; src is unchanged; and
\* later calls on src do not change dst.
C8_CopiesBinding ==
    [][/\ op'.name = "create_value_ref" /\ op'.r \in ConstRefs =>
             /\ pointer_'[op'.r] = pointer_[op'.src]
             /\ pointer_'[op'.src] = pointer_[op'.src]
       /\ op'.r \in MutRefs =>
             \A dst \in ConstRefs : pointer_'[dst] = pointer_[dst]]_vars

\* C8 witness: dst took src's binding, then src was rebound or cleared and
\* dst still holds the binding it took
C8_Witness ==
    \E dst \in ConstRefs :
        /\ last[dst].name = "create_value_ref"
        /\ last[dst].arg # nullptr
        /\ pointer_[dst] = last[dst].arg
        /\ op.name \in {"create_value", "destroy_value"}
        /\ op.r \in MutRefs
        /\ op.prev = pointer_[dst]
        /\ pointer_[op.r] # pointer_[dst]

\* C10: from a freshly constructed (empty) policy, after any sequence of
\* create_value, destroy_value, has_value, get_value and get_value_or calls,
\* has_value() is true exactly when the most recent call that set the binding
\* was create_value on an lvalue or on a bound source, get_value() is then
\* that call's target, and the three queries never change the binding.
C10_LastBindingWins ==
    /\ [](\A r \in Refs :
            /\ has_value(pointer_[r]) <=>
                  \/ last[r].name = "create_value"
                  \/ last[r].name = "create_value_ref" /\ last[r].arg # nullptr
            /\ has_value(pointer_[r]) => get_value(pointer_[r]) = last[r].arg)
    /\ [](op.name = "has_value" => (retb <=> pointer_[op.r] # nullptr))
    /\ [](op.name = "get_value" /\ has_value(pointer_[op.r]) =>
            ret = last[op.r].arg)
    /\ [][op'.name \in QueryCalls => pointer_' = pointer_]_vars

\* C10 witness: a reference bound from a bound source, then queried with
\* get_value(), which returned the source's target
C10_Witness ==
    /\ op.name = "get_value"
    /\ last[op.r].name = "create_value_ref"
    /\ last[op.r].arg # nullptr
    /\ ret = last[op.r].arg

TypeOK ==
    /\ pointer_ \in [Refs -> Objs \cup {nullptr}]
    /\ res.addr \in Addr
    /\ ret \in Addr \cup {nullptr}
    /\ retb \in BOOLEAN
====
